---- MODULE Spec2Model ----
(***************************************************************************)
(* A model of the binox puzzle engine: the bit-packed line (BinRow), the   *)
(* board (Binox) with its four line collections and given mask, the        *)
(* validity predicates, presolve, solve and generate.                      *)
(***************************************************************************)
EXTENDS Integers, Sequences, FiniteSets, TLC

VARIABLES row, rres, binox, last, pc, gen

vars == <<row, rres, binox, last, pc, gen>>

(***************************************************************************)
(* Program constants.                                                      *)
(***************************************************************************)
\* src/binox/row.rs:13 and src/binox.rs:82: "size must be at least 4"
MinSize == 4
\* src/binox/row.rs:10 and src/binox.rs:79: "size must be at most 16"
MaxSize == 16
\* src/binox/row.rs:3: data is a u16
WordBits == 16

WordMod == 2 ^ WordBits

(***************************************************************************)
(* u16 arithmetic as the compiled code performs it.                        *)
(***************************************************************************)
RECURSIVE BitAnd(_, _)
BitAnd(a, b) ==
    IF a = 0 \/ b = 0 THEN 0
    ELSE (a % 2) * (b % 2) + 2 * BitAnd(a \div 2, b \div 2)

RECURSIVE BitOr(_, _)
BitOr(a, b) ==
    IF a = 0 THEN b
    ELSE IF b = 0 THEN a
    ELSE (IF a % 2 = 1 \/ b % 2 = 1 THEN 1 ELSE 0) + 2 * BitOr(a \div 2, b \div 2)

RECURSIVE BitXor(_, _)
BitXor(a, b) ==
    IF a = 0 THEN b
    ELSE IF b = 0 THEN a
    ELSE (((a % 2) + (b % 2)) % 2) + 2 * BitXor(a \div 2, b \div 2)

\* !x on a u16
BitNot(a) == (WordMod - 1) - a

\* x << n on a u16 with n < 16: the bits shifted past bit 15 are dropped
Shl(a, n) == (a * (2 ^ n)) % WordMod

\* x >> n on a u16
Shr(a, n) == a \div (2 ^ n)

\* The shift amount of x << n is out of range for a u16: the build with overflow
\* checks panics ("attempt to shift left with overflow"), the build without them
\* masks the amount to the low four bits.
ShlOverflows(n) == n >= WordBits

\* x << n as the build without overflow checks computes it (wrapping_shl)
WrappingShl(a, n) == Shl(a, n % WordBits)

\* x - 1 on a u16 as the build without overflow checks computes it
WrappingSub(a, b) == (a - b + WordMod) % WordMod

(***************************************************************************)
(* BinRow (src/binox/row.rs)                                               *)
(***************************************************************************)
SizeOk(size) == ~(size > MaxSize) /\ ~(size < MinSize) /\ ~(size % 2 = 1)

BinRowNew(size) == [data |-> 0, size |-> size, count |-> 0]

\* set_one that counts every accepted call
BinRowSetOneCounts(r, position) ==
    IF position >= r.size
    THEN [ok |-> FALSE, row |-> r]
    ELSE [ok |-> TRUE,
          row |-> [r EXCEPT !.count = @ + 1,
                            !.data = BitOr(r.data, Shl(1, position))]]

\* set_one: Err when position >= size, else count += 1 when the bit was clear
BinRowSetOne(r, position) ==
    IF position >= r.size
    THEN [ok |-> FALSE, row |-> r]
    ELSE [ok |-> TRUE,
          row |-> [r EXCEPT
                     !.count = IF BitAnd(r.data, Shl(1, position)) = 0 THEN @ + 1 ELSE @,
                     !.data = BitOr(r.data, Shl(1, position))]]

\* set_zero: Err when position >= size, else count -= 1 when the bit was set
BinRowSetZero(r, position) ==
    IF position >= r.size
    THEN [ok |-> FALSE, row |-> r]
    ELSE [ok |-> TRUE,
          row |-> [r EXCEPT
                     !.count = IF BitAnd(r.data, Shl(1, position)) # 0 THEN @ - 1 ELSE @,
                     !.data = BitAnd(r.data, BitNot(Shl(1, position)))]]

BinRowSetBool(r, position, value) ==
    IF value THEN BinRowSetOne(r, position) ELSE BinRowSetZero(r, position)

\* get: Err when position >= size, else (data & 1 << position) > 0
BinRowGet(r, position) ==
    IF position >= r.size
    THEN [ok |-> FALSE, val |-> FALSE]
    ELSE [ok |-> TRUE, val |-> BitAnd(r.data, Shl(1, position)) > 0]

\* x & x << 1 & x >> 1
ThreeRun(x) == BitAnd(BitAnd(x, Shl(x, 1)), Shr(x, 1))

BinRowIsValidSimple(r) ==
    ThreeRun(r.data) = 0 /\ r.count <= r.size \div 2

\* (1 << self.size) - 1 in the build without overflow checks
FullMask(size) == WrappingSub(WrappingShl(1, size), 1)

\* is_valid as the build without overflow checks computes it
BinRowIsValid(r) ==
    /\ ThreeRun(r.data) = 0
    /\ r.count <= r.size \div 2
    /\ ~(/\ r.count = r.size \div 2
         /\ ThreeRun(BitXor(r.data, FullMask(r.size))) # 0)

\* is_valid evaluates 1 << self.size (the && chain reached its third operand and
\* count == size / 2 held) with a shift amount a u16 cannot take: the build with
\* overflow checks panics there.
BinRowIsValidPanics(r) ==
    /\ ThreeRun(r.data) = 0
    /\ r.count <= r.size \div 2
    /\ r.count = r.size \div 2
    /\ ShlOverflows(r.size)

\* The outcomes of is_valid over the builds: a value, or a panic
BinRowIsValidOutcomes(r) ==
    {[val |-> BinRowIsValid(r), panic |-> FALSE]}
        \cup (IF BinRowIsValidPanics(r) THEN {[val |-> FALSE, panic |-> TRUE]} ELSE {})

RECURSIVE PopCount(_)
PopCount(x) == IF x = 0 THEN 0 ELSE (x % 2) + PopCount(x \div 2)

(***************************************************************************)
(* Binox (src/binox.rs).  Vec index i is sequence index i + 1.             *)
(***************************************************************************)
Cells == {"X", "O", "EMPTY"}

\* Binox::new: Err for a size that is > 16, < 4 or odd
BinoxNew(size) ==
    IF ~SizeOk(size)
    THEN [ok |-> FALSE, binox |-> <<>>]
    ELSE [ok |-> TRUE,
          binox |-> [size |-> size,
                     x_rows |-> [i \in 1..size |-> BinRowNew(size)],
                     o_rows |-> [i \in 1..size |-> BinRowNew(size)],
                     x_cols |-> [i \in 1..size |-> BinRowNew(size)],
                     o_cols |-> [i \in 1..size |-> BinRowNew(size)],
                     default_rows |-> [i \in 1..size |-> BinRowNew(size)]]]

OutOfRange(b, r, c) == r >= b.size \/ c >= b.size

\* set_x that writes the row views only
WriteXRowsOnly(b, r, c) ==
    [b EXCEPT !.x_rows[r + 1] = BinRowSetOne(@, c).row,
              !.o_rows[r + 1] = BinRowSetZero(@, c).row]

\* the four line writes of set_x, after its range check
WriteX(b, r, c) ==
    [b EXCEPT !.x_rows[r + 1] = BinRowSetOne(@, c).row,
              !.o_rows[r + 1] = BinRowSetZero(@, c).row,
              !.x_cols[c + 1] = BinRowSetOne(@, r).row,
              !.o_cols[c + 1] = BinRowSetZero(@, r).row]

WriteO(b, r, c) ==
    [b EXCEPT !.x_rows[r + 1] = BinRowSetZero(@, c).row,
              !.o_rows[r + 1] = BinRowSetOne(@, c).row,
              !.x_cols[c + 1] = BinRowSetZero(@, r).row,
              !.o_cols[c + 1] = BinRowSetOne(@, r).row]

WriteEmpty(b, r, c) ==
    [b EXCEPT !.x_rows[r + 1] = BinRowSetZero(@, c).row,
              !.o_rows[r + 1] = BinRowSetZero(@, c).row,
              !.x_cols[c + 1] = BinRowSetZero(@, r).row,
              !.o_cols[c + 1] = BinRowSetZero(@, r).row]

set_x(b, r, c) ==
    IF OutOfRange(b, r, c) THEN [ok |-> FALSE, binox |-> b]
    ELSE [ok |-> TRUE, binox |-> WriteX(b, r, c)]

set_o(b, r, c) ==
    IF OutOfRange(b, r, c) THEN [ok |-> FALSE, binox |-> b]
    ELSE [ok |-> TRUE, binox |-> WriteO(b, r, c)]

set_empty(b, r, c) ==
    IF OutOfRange(b, r, c) THEN [ok |-> FALSE, binox |-> b]
    ELSE [ok |-> TRUE, binox |-> WriteEmpty(b, r, c)]

set_default(b, r, c, value) ==
    IF OutOfRange(b, r, c) THEN [ok |-> FALSE, binox |-> b]
    ELSE [ok |-> TRUE,
          binox |-> [b EXCEPT !.default_rows[r + 1] = BinRowSetBool(@, c, value).row]]

\* get_cell, for coordinates in range
get_cell(b, r, c) ==
    LET x == BinRowGet(b.x_rows[r + 1], c).val
        o == BinRowGet(b.o_rows[r + 1], c).val
    IN  IF x /\ ~o THEN "X"
        ELSE IF ~x /\ o THEN "O"
        ELSE "EMPTY"

\* is_default, for coordinates in range
is_default(b, r, c) == BinRowGet(b.default_rows[r + 1], c).val

\* set_cell without the test of the given flag
set_cell_unguarded(b, r, c, cell) ==
    IF OutOfRange(b, r, c) THEN [ok |-> FALSE, binox |-> b]
    ELSE CASE cell = "X" -> set_x(b, r, c)
           [] cell = "O" -> set_o(b, r, c)
           [] OTHER -> set_empty(b, r, c)

\* set_cell: Err out of range, Err on a given cell, else the symbol's mutator
set_cell(b, r, c, cell) ==
    IF OutOfRange(b, r, c) THEN [ok |-> FALSE, binox |-> b]
    ELSE IF is_default(b, r, c) THEN [ok |-> FALSE, binox |-> b]
    ELSE CASE cell = "X" -> set_x(b, r, c)
           [] cell = "O" -> set_o(b, r, c)
           [] OTHER -> set_empty(b, r, c)

\* [&self.x_rows, &self.o_cols, &self.x_cols, &self.o_cols].iter().flat_map(..)
CheckedLines(b) == b.x_rows \o b.o_cols \o b.x_cols \o b.o_cols

is_valid_simple(b) ==
    LET lines == CheckedLines(b)
    IN  \A k \in 1..Len(lines) : BinRowIsValidSimple(lines[k])

\* derive(PartialOrd, Ord) on BinRow: data, then size, then count
BinRowLess(p, q) ==
    \/ p.data < q.data
    \/ p.data = q.data /\ p.size < q.size
    \/ p.data = q.data /\ p.size = q.size /\ p.count < q.count

RECURSIVE InsertSorted(_, _)
InsertSorted(s, e) ==
    IF s = <<>> THEN <<e>>
    ELSE IF BinRowLess(e, Head(s)) THEN <<e>> \o s
    ELSE <<Head(s)>> \o InsertSorted(Tail(s), e)

\* Vec<BinRow>::sort
RECURSIVE sort(_)
sort(s) == IF s = <<>> THEN <<>> ELSE InsertSorted(sort(Tail(s)), Head(s))

\* adjacent lines of a sorted collection with equal data, the first half full
AdjacentDuplicate(sorted, size) ==
    \E i \in 1..(size - 1) :
        sorted[i].data = sorted[i + 1].data /\ sorted[i].count = size \div 2

is_valid(b) ==
    /\ LET lines == CheckedLines(b)
       IN  \A k \in 1..Len(lines) : BinRowIsValid(lines[k])
    /\ ~AdjacentDuplicate(sort(b.x_rows), b.size)
    /\ ~AdjacentDuplicate(sort(b.o_rows), b.size)
    /\ ~AdjacentDuplicate(sort(b.x_cols), b.size)
    /\ ~AdjacentDuplicate(sort(b.o_cols), b.size)

\* is_valid panics in the build with overflow checks: the first line of the
\* all(..) that is not simply rejected evaluates 1 << 16
is_valid_panics(b) ==
    LET lines == CheckedLines(b)
    IN  \E k \in 1..Len(lines) :
            /\ BinRowIsValidPanics(lines[k])
            /\ \A j \in 1..(k - 1) : BinRowIsValid(lines[j])

is_full(b) ==
    \A i \in 0..(b.size - 1) : b.x_rows[i + 1].count + b.o_rows[i + 1].count = b.size

is_solved(b) == is_full(b) /\ is_valid(b)

(***************************************************************************)
(* The textual encoding.  A String is a sequence of one-character strings. *)
(***************************************************************************)
\* impl From<BinoxCell> for char
CellChar(cell) ==
    CASE cell = "X" -> "X"
      [] cell = "O" -> "O"
      [] OTHER -> " "

\* as_string without the lowercase of editable cells
EncodeCellUpper(b, r, c) ==
    LET ch == CellChar(get_cell(b, r, c))
    IN  IF ch = " " THEN "." ELSE ch

\* the character as_string pushes for one cell
EncodeCell(b, r, c) ==
    LET ch == CellChar(get_cell(b, r, c))
    IN  IF ch = "X" /\ ~is_default(b, r, c) THEN "x"
        ELSE IF ch = "O" /\ ~is_default(b, r, c) THEN "o"
        ELSE IF ch = " " THEN "."
        ELSE ch

as_string(b) ==
    [k \in 1..(b.size * b.size) |->
        EncodeCell(b, (k - 1) \div b.size, (k - 1) % b.size)]

\* (len as f64).sqrt().floor() as u8: the cast saturates at 255
RECURSIVE FloorSqrtFrom(_, _)
FloorSqrtFrom(n, k) ==
    IF k = 255 \/ (k + 1) * (k + 1) > n THEN k ELSE FloorSqrtFrom(n, k + 1)

DecodedSize(len) ==
    LET s0 == FloorSqrtFrom(len, 0)
        s1 == IF s0 < MinSize THEN MinSize ELSE s0
        s2 == IF s1 > MaxSize THEN MaxSize ELSE s1
    IN  IF s2 % 2 = 1 THEN s2 + 1 ELSE s2

\* the match on one character of new_from_string: i is the column, j the row
DecodeChar(b, ch, i, j) ==
    CASE ch = "x" -> set_x(b, j, i).binox
      [] ch = "X" -> set_default(set_x(b, j, i).binox, j, i, TRUE).binox
      [] ch = "o" -> set_o(b, j, i).binox
      [] ch = "O" -> set_default(set_o(b, j, i).binox, j, i, TRUE).binox
      [] OTHER -> b

\* one iteration of the for loop of new_from_string on the loop state
\* [b, i, j, done]: the match, then the advance of i and j, then the break
DecodeStep(st, ch) ==
    IF st.done THEN st
    ELSE LET b1 == DecodeChar(st.b, ch, st.i, st.j)
             i1 == st.i + 1
             i2 == IF i1 >= b1.size THEN 0 ELSE i1
             j2 == IF i1 >= b1.size THEN st.j + 1 ELSE st.j
         IN  [b |-> b1, i |-> i2, j |-> j2, done |-> j2 >= b1.size]

\* the iterations of the loop for the characters lo..hi, in order
RECURSIVE DecodeRange(_, _, _, _)
DecodeRange(st, str, lo, hi) ==
    IF lo > hi THEN st
    ELSE IF lo = hi THEN DecodeStep(st, str[lo])
    ELSE LET mid == (lo + hi) \div 2
             left == DecodeRange(st, str, lo, mid)
         IN  IF left.done THEN left ELSE DecodeRange(left, str, mid + 1, hi)

new_from_string(str) ==
    DecodeRange([b |-> BinoxNew(DecodedSize(Len(str))).binox, i |-> 0, j |-> 0,
                 done |-> FALSE], str, 1, Len(str)).b

(***************************************************************************)
(* reset, presolve, solve                                                  *)
(***************************************************************************)
\* a reset that clears given cells too
ResetClearsAll(b, r, c) == TRUE

\* the cells reset clears: those whose given flag is not set
ResetClears(b, r, c) == ~is_default(b, r, c)

\* the double loop of reset from cell k (row-major) on
RECURSIVE ResetFrom(_, _)
ResetFrom(b, k) ==
    IF k >= b.size * b.size THEN b
    ELSE IF ResetClears(b, k \div b.size, k % b.size)
         THEN ResetFrom(set_empty(b, k \div b.size, k % b.size).binox, k + 1)
         ELSE ResetFrom(b, k + 1)

reset(b) == ResetFrom(b, 0)

\* the validity test of a sweep: is_valid (presolve) or is_valid_simple
SweepValid(b, strict) == IF strict THEN is_valid(b) ELSE is_valid_simple(b)

\* a sweep that tries every cell, filled or not
SweepTriesFilled(b, r, c) == TRUE

\* the cells a sweep tries: those that are EMPTY when it reaches them
SweepTries(b, r, c) == get_cell(b, r, c) = "EMPTY"

\* the double loop of presolve / presolve_simple from cell k (row-major) on
RECURSIVE SweepFrom(_, _, _)

\* a match that commits X when both symbols pass the validity test
SweepMatchGuesses(bo, x_valid, o_valid, r, c, k, strict) ==
    CASE x_valid -> SweepFrom(set_x(bo, r, c).binox, k + 1, strict)
      [] o_valid -> SweepFrom(set_o(bo, r, c).binox, k + 1, strict)
      [] OTHER -> [res |-> "Bad", binox |-> set_empty(bo, r, c).binox]

\* the match on (x_valid, o_valid); bo is the board after set_x and set_o
SweepMatch(bo, x_valid, o_valid, r, c, k, strict) ==
    CASE x_valid /\ ~o_valid -> SweepFrom(set_x(bo, r, c).binox, k + 1, strict)
      [] ~x_valid /\ o_valid -> SweepFrom(set_o(bo, r, c).binox, k + 1, strict)
      [] ~x_valid /\ ~o_valid -> [res |-> "Bad", binox |-> set_empty(bo, r, c).binox]
      [] OTHER -> SweepFrom(set_empty(bo, r, c).binox, k + 1, strict)

\* set_o and the second validity test; bx is the board after set_x
SweepSetO(bx, bo, r, c, k, strict) ==
    SweepMatch(bo, SweepValid(bx, strict), SweepValid(bo, strict), r, c, k, strict)

\* set_x and the first validity test
SweepSetX(bx, r, c, k, strict) == SweepSetO(bx, set_o(bx, r, c).binox, r, c, k, strict)

SweepFrom(b, k, strict) ==
    IF k >= b.size * b.size THEN [res |-> "Good", binox |-> b]
    ELSE IF SweepTries(b, k \div b.size, k % b.size)
         THEN SweepSetX(set_x(b, k \div b.size, k % b.size).binox,
                        k \div b.size, k % b.size, k, strict)
         ELSE SweepFrom(b, k + 1, strict)

presolve(b) == SweepFrom(b, 0, TRUE)

presolve_simple(b) == SweepFrom(b, 0, FALSE)

\* BinoxSolution
Zero == [tag |-> "Zero", sols |-> <<>>]
One(a) == [tag |-> "One", sols |-> <<a>>]
Multiple(a, b) == [tag |-> "Multiple", sols |-> <<a, b>>]

\* an Add in which One(a) absorbs a Multiple on its right
AddKeepsOne(self, rhs) ==
    CASE self.tag = "Multiple" -> self
      [] self.tag = "One" ->
            (CASE rhs.tag = "One" -> Multiple(self.sols[1], rhs.sols[1])
               [] OTHER -> One(self.sols[1]))
      [] OTHER -> rhs

\* impl Add for BinoxSolution
Add(self, rhs) ==
    CASE self.tag = "Multiple" -> self
      [] self.tag = "One" ->
            (CASE rhs.tag = "Zero" -> One(self.sols[1])
               [] rhs.tag = "One" -> Multiple(self.sols[1], rhs.sols[1])
               [] OTHER -> rhs)
      [] OTHER -> rhs

\* alternated_range: the even indices below n, then the odd ones
alternated_range(n) ==
    LET evens == {i \in 0..(n - 1) : i % 2 = 0}
        odds == {i \in 0..(n - 1) : i % 2 = 1}
        half == Cardinality(evens)
    IN  [k \in 1..n |-> IF k <= half THEN 2 * (k - 1) ELSE 2 * (k - half - 1) + 1]

\* the labelled scan of solve over alt = alternated_range(size): the first EMPTY
\* cell in that order, (0, 0) when the scan finds none
RECURSIVE FirstEmptyFrom(_, _, _)
FirstEmptyFrom(b, alt, k) ==
    IF k >= b.size * b.size THEN <<0, 0>>
    ELSE LET r == alt[(k \div b.size) + 1]
             c == alt[(k % b.size) + 1]
         IN  IF get_cell(b, r, c) = "EMPTY" THEN <<r, c>>
             ELSE FirstEmptyFrom(b, alt, k + 1)

\* a scan that finds no cell and keeps the initial (0, 0)
FirstEmptyNone(b) == <<0, 0>>

FirstEmpty(b) == FirstEmptyFrom(b, alternated_range(b.size), 0)

RECURSIVE solve(_, _)

\* the match on (x_solved, multiple)
SolveMatch(x_solved, o_clone, multiple) ==
    CASE x_solved.tag = "Zero" -> solve(o_clone, multiple)
      [] x_solved.tag = "One" /\ multiple ->
            Add(One(x_solved.sols[1]), solve(o_clone, FALSE))
      [] x_solved.tag = "One" /\ ~multiple -> One(x_solved.sols[1])
      [] x_solved.tag = "Multiple" /\ multiple -> x_solved
      [] OTHER -> One(x_solved.sols[1])

\* the two clones at the cell the scan returned
SolveBranch(x_clone, cell, multiple) ==
    SolveMatch(solve(set_x(x_clone, cell[1], cell[2]).binox, multiple),
               set_o(x_clone, cell[1], cell[2]).binox, multiple)

\* the match on the result p of presolve on the clone
SolveSwept(p, multiple) ==
    IF p.res = "Bad" THEN Zero
    ELSE SolveBranch(p.binox, FirstEmpty(p.binox), multiple)

solve(self, multiple) ==
    IF ~is_valid(self) THEN Zero
    ELSE IF is_full(self) THEN One(self)
    ELSE SolveSwept(presolve(self), multiple)

(***************************************************************************)
(* generate and its helpers                                                *)
(***************************************************************************)
\* the nested loops of get_differences from cell k on, row-major
RECURSIVE DifferencesFrom(_, _, _)
DifferencesFrom(self, other, k) ==
    IF k >= self.size * self.size THEN <<>>
    ELSE LET r == k \div self.size
             c == k % self.size
         IN  (IF get_cell(self, r, c) # get_cell(other, r, c) THEN <<<<r, c>>>> ELSE <<>>)
                 \o DifferencesFrom(self, other, k + 1)

\* a comparison that reports every cell
get_differences_every(self, other) ==
    [ok |-> TRUE,
     cells |-> [i \in 1..(self.size * self.size) |->
                   <<(i - 1) \div self.size, (i - 1) % self.size>>]]

get_differences(self, other) ==
    IF self.size # other.size THEN [ok |-> FALSE, cells |-> <<>>]
    ELSE [ok |-> TRUE, cells |-> DifferencesFrom(self, other, 0)]

\* the nested loops of get_empties from cell k on, row-major
RECURSIVE EmptiesFrom(_, _)
EmptiesFrom(self, k) ==
    IF k >= self.size * self.size THEN <<>>
    ELSE LET r == k \div self.size
             c == k % self.size
         IN  (IF get_cell(self, r, c) = "EMPTY" THEN <<<<r, c>>>> ELSE <<>>)
                 \o EmptiesFrom(self, k + 1)

get_empties(self) == EmptiesFrom(self, 0)

(***************************************************************************)
(* solve with a record of its recursion: the solution, the depth of the    *)
(* recursion, whether every recursive call was made on a board with fewer  *)
(* EMPTY cells than the board of the call that made it (shrinks), and      *)
(* whether every cell branched on was EMPTY in the presolved clone (fresh).*)
(* A call that would not shrink is recorded and not followed.              *)
(***************************************************************************)
Empties(b) == Len(get_empties(b))

TraceLeaf(sol) == [sol |-> sol, depth |-> 0, shrinks |-> TRUE, fresh |-> TRUE]

TraceStuck == [sol |-> Zero, depth |-> 0, shrinks |-> FALSE, fresh |-> TRUE]

RECURSIVE SolveTrace(_, _)

\* a recursive call from a board with n EMPTY cells
TraceCall(n, clone, multiple) ==
    IF Empties(clone) >= n THEN TraceStuck ELSE SolveTrace(clone, multiple)

\* the match on (x_solved, multiple), on the records of the two calls
TraceJoin(x_t, o_t, fresh, multiple) ==
    [sol |-> CASE x_t.sol.tag = "Zero" -> o_t.sol
               [] x_t.sol.tag = "One" /\ multiple -> Add(One(x_t.sol.sols[1]), o_t.sol)
               [] x_t.sol.tag = "One" /\ ~multiple -> One(x_t.sol.sols[1])
               [] x_t.sol.tag = "Multiple" /\ multiple -> x_t.sol
               [] OTHER -> One(x_t.sol.sols[1]),
     depth |-> 1 + (IF x_t.depth > o_t.depth THEN x_t.depth ELSE o_t.depth),
     shrinks |-> x_t.shrinks /\ o_t.shrinks,
     fresh |-> fresh /\ x_t.fresh /\ o_t.fresh]

\* the call on o_clone, made when x_solved is Zero, or One with multiple
TraceMatch(n, x_t, o_clone, fresh, multiple) ==
    TraceJoin(x_t,
              CASE x_t.sol.tag = "Zero" -> TraceCall(n, o_clone, multiple)
                [] x_t.sol.tag = "One" /\ multiple -> TraceCall(n, o_clone, FALSE)
                [] OTHER -> TraceLeaf(Zero),
              fresh, multiple)

TraceBranch(n, x_clone, cell, multiple) ==
    TraceMatch(n, TraceCall(n, set_x(x_clone, cell[1], cell[2]).binox, multiple),
               set_o(x_clone, cell[1], cell[2]).binox,
               get_cell(x_clone, cell[1], cell[2]) = "EMPTY", multiple)

TraceSwept(n, p, multiple) ==
    IF p.res = "Bad" THEN TraceLeaf(Zero)
    ELSE TraceBranch(n, p.binox, FirstEmpty(p.binox), multiple)

SolveTrace(self, multiple) ==
    IF ~is_valid(self) THEN TraceLeaf(Zero)
    ELSE IF is_full(self) THEN TraceLeaf(One(self))
    ELSE TraceSwept(Empties(self), presolve(self), multiple)

RECURSIVE UnmodifiableFrom(_, _)
UnmodifiableFrom(b, k) ==
    IF k >= b.size * b.size THEN b
    ELSE LET r == k \div b.size
             c == k % b.size
         IN  IF get_cell(b, r, c) # "EMPTY"
             THEN UnmodifiableFrom(set_default(b, r, c, TRUE).binox, k + 1)
             ELSE UnmodifiableFrom(b, k + 1)

make_cells_unmodifiable(b) == UnmodifiableFrom(b, 0)

\* phase 1: for i in 0..size, X or O (by coins[i + 1]) at (rows[i], cols[i])
RECURSIVE SeedFrom(_, _, _, _)
SeedFrom(b, rows, coins, i) ==
    IF i >= b.size THEN b
    ELSE IF coins[i + 1]
         THEN SeedFrom(set_x(b, rows[i + 1], i).binox, rows, coins, i + 1)
         ELSE SeedFrom(set_o(b, rows[i + 1], i).binox, rows, coins, i + 1)

\* phase 3: a symbol that one presolve sweep recovers is removed
RECURSIVE Phase3From(_, _)

Phase3Cell(b, r, c, current_cell, k) ==
    IF get_cell(presolve(set_empty(b, r, c).binox).binox, r, c) = current_cell
    THEN Phase3From(set_empty(b, r, c).binox, k + 1)
    ELSE Phase3From(b, k + 1)

Phase3From(b, k) ==
    IF k >= b.size * b.size THEN b
    ELSE IF get_cell(b, k \div b.size, k % b.size) # "EMPTY"
         THEN Phase3Cell(b, k \div b.size, k % b.size,
                         get_cell(b, k \div b.size, k % b.size), k)
         ELSE Phase3From(b, k + 1)

\* the perfect phase: a symbol is removed unless solve then reports Multiple
RECURSIVE Phase4From(_, _)

\* a perfect phase that puts every symbol back
Phase4CellRestores(cleared, r, c, current_cell, k) ==
    Phase4From(set_cell(cleared, r, c, current_cell).binox, k + 1)

Phase4Cell(cleared, r, c, current_cell, k) ==
    IF solve(cleared, TRUE).tag = "Multiple"
    THEN Phase4From(set_cell(cleared, r, c, current_cell).binox, k + 1)
    ELSE Phase4From(cleared, k + 1)

Phase4From(b, k) ==
    IF k >= b.size * b.size THEN b
    ELSE IF get_cell(b, k \div b.size, k % b.size) # "EMPTY"
         THEN Phase4Cell(set_empty(b, k \div b.size, k % b.size).binox,
                         k \div b.size, k % b.size,
                         get_cell(b, k \div b.size, k % b.size), k)
         ELSE Phase4From(b, k + 1)

\* phase 5: the first num cells of the shuffled empties take the symbol of solved
RECURSIVE ExtrasFrom(_, _, _, _, _)
ExtrasFrom(b, solved, empties, num, i) ==
    IF i > num THEN b
    ELSE LET r == empties[i][1]
             c == empties[i][2]
         IN  ExtrasFrom(set_cell(b, r, c, get_cell(solved, r, c)).binox,
                        solved, empties, num, i + 1)

(***************************************************************************)
(* Bounds of the model and the inputs drawn under them.                    *)
(***************************************************************************)
\* the boards of the one-call specification are decoded from strings whose
\* first PrefixLen cells are free and whose other cells are those of SolvedTest,
\* and from strings whose first SparseLen cells are free and whose other cells
\* are "."
PrefixLen == 7
SparseLen == 4

\* the line mutators are called with positions below PosBound (and with the
\* first position out of range)
PosBound == 11

\* the sizes BinRow::new and Binox::new accept
LineSizes == {n \in 0..(MaxSize + 2) : SizeOk(n)}

SmallCells == MinSize * MinSize

\* the solved board of test full_valid_solved
SolvedTest ==
    <<"x", "x", "o", "o", "x", "o", "x", "o", "o", "x", "o", "x", "o", "o", "x", "x">>

EmptyString == [k \in 1..SmallCells |-> "."]

\* the strings that differ from tail only in their first len cells
TailStrings(tail, len) ==
    {[k \in 1..SmallCells |-> IF k <= len THEN p[k] ELSE tail[k]] :
        p \in [1..len -> {".", "x", "o"}]}

\* a full board of the largest size written as the x_rows words of its rows
StringOfWords(words) ==
    [k \in 1..(MaxSize * MaxSize) |->
        IF BitAnd(words[((k - 1) \div MaxSize) + 1], Shl(1, (k - 1) % MaxSize)) # 0
        THEN "x" ELSE "o"]

\* 16 x 16: every row and column half X, no three equal in a row or column,
\* rows distinct, columns distinct
LargeSolved ==
    StringOfWords(<<21083, 44204, 21845, 51882, 13653, 27306, 38229, 45738,
                    19797, 39594, 25941, 53930, 11605, 42698, 23333, 43442>>)

\* 16 x 16: as LargeSolved, but rows 0, 12 and 15 hold three O in a row
LargeTripleO ==
    StringOfWords(<<42712, 22827, 21845, 43690, 13653, 51882, 38229, 27306,
                    19797, 45738, 25941, 39594, 50517, 11114, 22709, 46726>>)

SweepStrings ==
    TailStrings(SolvedTest, PrefixLen) \cup TailStrings(EmptyString, SparseLen)

BoardStrings == SweepStrings \cup {LargeSolved, LargeTripleO}

\* a set_cell that succeeds leaves at most MaxFilled editable cells filled
MaxFilled == 1

\* the strings the play specification decodes: a board with twelve given cells,
\* one with given and editable symbols, and the first string of test
\* full_valid_solved
GivenTail ==
    <<".", ".", ".", ".", "X", "O", "X", "O", "O", "X", "O", "X", "O", "O", "X", "X">>

MixedPuzzle ==
    <<"X", ".", "O", ".", ".", "o", ".", ".", ".", ".", "x", ".", ".", ".", ".", "O">>

TestPartial ==
    <<"x", "x", " ", "x", " ", " ", " ", " ", " ", " ", " ", " ", " ", " ", " ", " ">>

PlayStrings == {GivenTail, MixedPuzzle, TestPartial}

\* the sizes the "new" command is given: the smallest legal one and the one below
PlaySizes == {MinSize - 1, MinSize}

\* a shuffle of generate returns its input rotated left by at most MaxRotation
MaxRotation == 1

\* gen_range of the repair loop returns an index below MaxPick
MaxPick == 1

\* generate is called with extras <= MaxExtras
MaxExtras == 1

\* the sizes generate is called with: the smallest legal one and the one below
GenSizes == {MinSize - 1, MinSize}

Rotate(seq, k) ==
    [i \in 1..Len(seq) |-> seq[((i - 1 + k) % Len(seq)) + 1]]

\* the outcomes of shuffle on seq
Shuffles(seq) == {Rotate(seq, k) : k \in 0..MaxRotation}

\* the outcomes of gen_range(0..len)
Picks(len) == {i \in 0..(len - 1) : i < MaxPick}

IdleRow == <<>>
IdleBoard == <<>>
IdleLast == [op |-> "idle"]

(***************************************************************************)
(* SpecRow: a line after BinRow::new, its mutators, and a final validity   *)
(* query.                                                                  *)
(***************************************************************************)
InitRow ==
    /\ \E size \in LineSizes : row = BinRowNew(size)
    /\ rres = [op |-> "new", ok |-> TRUE]
    /\ binox = IdleBoard
    /\ last = IdleLast
    /\ pc = "row"
    /\ gen = <<>>

\* the positions the mutators are called with: those in range below PosBound,
\* and the first one out of range
Positions(r) == {p \in 0..r.size : p < PosBound \/ p = r.size}

RowSetOne(position) ==
    /\ pc = "row"
    /\ LET res == BinRowSetOne(row, position)
       IN  row' = res.row /\ rres' = [op |-> "set", ok |-> res.ok]
    /\ UNCHANGED <<binox, last, pc, gen>>

RowSetZero(position) ==
    /\ pc = "row"
    /\ LET res == BinRowSetZero(row, position)
       IN  row' = res.row /\ rres' = [op |-> "set", ok |-> res.ok]
    /\ UNCHANGED <<binox, last, pc, gen>>

RowSetBool(position, value) ==
    /\ pc = "row"
    /\ LET res == BinRowSetBool(row, position, value)
       IN  row' = res.row /\ rres' = [op |-> "set", ok |-> res.ok]
    /\ UNCHANGED <<binox, last, pc, gen>>

RowIsValidSimple ==
    /\ pc = "row"
    /\ rres' = [op |-> "is_valid_simple", val |-> BinRowIsValidSimple(row), panic |-> FALSE]
    /\ pc' = "rowdone"
    /\ UNCHANGED <<row, binox, last, gen>>

RowIsValid ==
    /\ pc = "row"
    /\ \E out \in BinRowIsValidOutcomes(row) :
          rres' = [op |-> "is_valid", val |-> out.val, panic |-> out.panic]
    /\ pc' = "rowdone"
    /\ UNCHANGED <<row, binox, last, gen>>

NextRow ==
    \/ \E position \in Positions(row) : RowSetOne(position)
    \/ \E position \in Positions(row) : RowSetZero(position)
    \/ \E position \in Positions(row), value \in BOOLEAN : RowSetBool(position, value)
    \/ RowIsValidSimple
    \/ RowIsValid

SpecRow == InitRow /\ [][NextRow]_vars

(***************************************************************************)
(* SpecCall: one call of a query, presolve or solve on a decoded board.    *)
(***************************************************************************)
InitCall ==
    /\ \E str \in BoardStrings : binox = new_from_string(str)
    /\ last = [op |-> "new_from_string"]
    /\ pc = "call"
    /\ row = IdleRow
    /\ rres = [op |-> "idle"]
    /\ gen = <<>>

\* For a size below 16 no call of is_valid panics.  The boards of size 16 are
\* full: solve and is_solved make one is_valid call on them.
CallPanics(b) == is_valid_panics(b)

\* the "verify" command: is_full and is_valid, with is_valid_simple and is_solved
Verify ==
    /\ pc = "call"
    /\ \/ last' = [op |-> "verify", panic |-> FALSE, full |-> is_full(binox),
                   valid |-> is_valid(binox), simple |-> is_valid_simple(binox),
                   solved |-> is_solved(binox)]
       \/ /\ CallPanics(binox)
          /\ last' = [op |-> "verify", panic |-> TRUE]
    /\ pc' = "done"
    /\ UNCHANGED <<row, rres, binox, gen>>

Solve(multiple) ==
    /\ pc = "call"
    /\ \/ last' = [op |-> "solve", panic |-> FALSE, multiple |-> multiple,
                   sol |-> solve(binox, multiple)]
       \/ /\ CallPanics(binox)
          /\ last' = [op |-> "solve", panic |-> TRUE, multiple |-> multiple]
    /\ pc' = "done"
    /\ UNCHANGED <<row, rres, binox, gen>>

NextCall ==
    \/ Verify
    \/ \E multiple \in BOOLEAN : Solve(multiple)

SpecCall == InitCall /\ [][NextCall]_vars

(***************************************************************************)
(* SpecSweep: calls of presolve and presolve_simple, one after another, on *)
(* a decoded board.                                                        *)
(***************************************************************************)
InitSweep ==
    /\ \E str \in SweepStrings : binox = new_from_string(str)
    /\ last = [op |-> "new_from_string"]
    /\ pc = "sweep"
    /\ row = IdleRow
    /\ rres = [op |-> "idle"]
    /\ gen = <<>>

Presolve(strict) ==
    /\ pc = "sweep"
    /\ \E p \in {IF strict THEN presolve(binox) ELSE presolve_simple(binox)} :
          /\ binox' = p.binox
          /\ last' = [op |-> "presolve", strict |-> strict, res |-> p.res, before |-> binox]
    /\ UNCHANGED <<row, rres, pc, gen>>

NextSweep == \E strict \in BOOLEAN : Presolve(strict)

SpecSweep == InitSweep /\ [][NextSweep]_vars

(***************************************************************************)
(* Spec: a session on one board.  It starts from Binox::new and runs the   *)
(* commands of interpret (x / o / erase, clear, presolve, solve, new), the *)
(* decoding of a stored string, and the as_string / new_from_string round  *)
(* trip of next / previous.                                                *)
(***************************************************************************)
Init ==
    /\ binox = BinoxNew(MinSize).binox
    /\ last = [op |-> "new", ok |-> TRUE, blocked |-> "no"]
    /\ pc = "play"
    /\ row = IdleRow
    /\ rres = [op |-> "idle"]
    /\ gen = <<>>

\* the number of symbols on the board beyond its given cells (a given cell
\* always holds a symbol)
RECURSIVE CountFrom(_, _)
CountFrom(lines, k) ==
    IF k > Len(lines) THEN 0 ELSE lines[k].count + CountFrom(lines, k + 1)

EditableFilled(b) ==
    CountFrom(b.x_rows, 1) + CountFrom(b.o_rows, 1) - CountFrom(b.default_rows, 1)

\* why set_cell refuses a call, "no" when it does not
Blocked(b, r, c) ==
    IF OutOfRange(b, r, c) THEN "range"
    ELSE IF is_default(b, r, c) THEN "given"
    ELSE "no"

SetCell(r, c, cell) ==
    /\ pc = "play"
    /\ \E res \in {set_cell(binox, r, c, cell)} :
          /\ ~res.ok \/ EditableFilled(res.binox) <= MaxFilled
          /\ binox' = res.binox
          /\ last' = [op |-> "set_cell", ok |-> res.ok, blocked |-> Blocked(binox, r, c)]
    /\ UNCHANGED <<row, rres, pc, gen>>

Reset ==
    /\ pc = "play"
    /\ binox' = reset(binox)
    /\ last' = [op |-> "reset", ok |-> TRUE, blocked |-> "no"]
    /\ UNCHANGED <<row, rres, pc, gen>>

PlayPresolve ==
    /\ pc = "play"
    /\ binox' = presolve(binox).binox
    /\ last' = [op |-> "presolve", ok |-> TRUE, blocked |-> "no"]
    /\ UNCHANGED <<row, rres, pc, gen>>

\* the "solve" command: the board becomes the first solution found
PlaySolve ==
    /\ pc = "play"
    /\ \E sol \in {solve(binox, TRUE)} :
          IF sol.tag = "Zero"
          THEN /\ binox' = binox
               /\ last' = [op |-> "solve", ok |-> FALSE, blocked |-> "no"]
          ELSE /\ binox' = sol.sols[1]
               /\ last' = [op |-> "solve", ok |-> TRUE, blocked |-> "no"]
    /\ UNCHANGED <<row, rres, pc, gen>>

New(size) ==
    /\ pc = "play"
    /\ LET res == BinoxNew(size)
       IN  /\ binox' = IF res.ok THEN res.binox ELSE binox
           /\ last' = [op |-> "new", ok |-> res.ok, blocked |-> "no"]
    /\ UNCHANGED <<row, rres, pc, gen>>

Import(str) ==
    /\ pc = "play"
    /\ binox' = new_from_string(str)
    /\ last' = [op |-> "new_from_string", ok |-> TRUE, blocked |-> "no"]
    /\ UNCHANGED <<row, rres, pc, gen>>

\* next / previous: the board is stored as as_string and decoded again
Reload ==
    /\ pc = "play"
    /\ binox' = new_from_string(as_string(binox))
    /\ last' = [op |-> "reload", ok |-> TRUE, blocked |-> "no"]
    /\ UNCHANGED <<row, rres, pc, gen>>

Next ==
    \/ \E r \in 0..binox.size, c \in 0..binox.size, cell \in Cells : SetCell(r, c, cell)
    \/ Reset
    \/ PlayPresolve
    \/ PlaySolve
    \/ \E size \in PlaySizes : New(size)
    \/ \E str \in PlayStrings : Import(str)
    \/ Reload

Spec == Init /\ [][Next]_vars

(***************************************************************************)
(* SpecGen: one call of generate(size, perfect, extras).  The call is cut   *)
(* at its random draws: the shuffle and coins of phase 1, the index and    *)
(* coin of each turn of the repair loop, the shuffle of phase 5.  The      *)
(* arguments perfect and extras are drawn where generate first reads them. *)
(* gen.turns counts the turns of the loop of phase 2 taken so far.         *)
(***************************************************************************)
InitGen ==
    /\ \E size \in GenSizes :
          LET res == BinoxNew(size)
          IN  IF res.ok
              THEN /\ binox = res.binox
                   /\ pc = "phase1"
                   /\ last = IdleLast
                   /\ gen = [size |-> size, turns |-> 0]
              ELSE /\ binox = IdleBoard
                   /\ pc = "error"
                   /\ last = [op |-> "generate", ok |-> FALSE]
                   /\ gen = [size |-> size, turns |-> 0]
    /\ row = IdleRow
    /\ rres = [op |-> "idle"]

\* phase 1: the shuffled rows and one coin per column
GenSeed ==
    /\ pc = "phase1"
    /\ \E rows \in Shuffles([i \in 1..binox.size |-> i - 1]),
          coins \in [1..binox.size -> BOOLEAN] :
          binox' = SeedFrom(binox, rows, coins, 0)
    /\ pc' = "phase2"
    /\ UNCHANGED <<row, rres, last, gen>>

\* one turn of the loop of phase 2, from the differences on: the board after
\* each draw of an index and a coin, with the cells that differed
RepairDraws(b, diff) ==
    IF ~diff.ok THEN {[pc |-> "error", binox |-> b, tag |-> "Multiple", diff |-> <<>>]}
    ELSE IF diff.cells = <<>>
         THEN {[pc |-> "phase3", binox |-> b, tag |-> "Multiple", diff |-> <<>>]}
    ELSE {[pc |-> "phase2",
           binox |-> IF coin
                     THEN set_x(b, diff.cells[idx + 1][1], diff.cells[idx + 1][2]).binox
                     ELSE set_o(b, diff.cells[idx + 1][1], diff.cells[idx + 1][2]).binox,
           tag |-> "Multiple",
           diff |-> diff.cells] :
             idx \in Picks(Len(diff.cells)), coin \in BOOLEAN}

\* a loop of phase 2 that breaks on Multiple as it does on One
RepairMatchBreaks(b, sol) ==
    CASE sol.tag = "Zero" -> {[pc |-> "error", binox |-> b, tag |-> "Zero", diff |-> <<>>]}
      [] OTHER -> {[pc |-> "phase3", binox |-> b, tag |-> sol.tag, diff |-> <<>>]}

\* the match on the solution of one turn of the loop of phase 2
RepairMatch(b, sol) ==
    CASE sol.tag = "Zero" -> {[pc |-> "error", binox |-> b, tag |-> "Zero", diff |-> <<>>]}
      [] sol.tag = "One" -> {[pc |-> "phase3", binox |-> b, tag |-> "One", diff |-> <<>>]}
      [] OTHER -> RepairDraws(b, get_differences(sol.sols[1], sol.sols[2]))

\* one turn of the loop; last keeps what solve returned and the differences
GenRepair ==
    /\ pc = "phase2"
    /\ gen.turns <= binox.size * binox.size
    /\ \E out \in RepairMatch(binox, solve(binox, TRUE)) :
          /\ binox' = out.binox
          /\ pc' = out.pc
          /\ last' = [op |-> IF out.pc = "error" THEN "generate" ELSE "repair",
                      ok |-> out.pc # "error", tag |-> out.tag, diff |-> out.diff]
    /\ gen' = [gen EXCEPT !.turns = @ + 1]
    /\ UNCHANGED <<row, rres>>

\* phase 3 and, when perfect, the second removal phase
GenMinimize ==
    /\ pc = "phase3"
    /\ \E perfect \in BOOLEAN :
          /\ binox' = IF perfect THEN Phase4From(Phase3From(binox, 0), 0)
                      ELSE Phase3From(binox, 0)
          /\ gen' = [size |-> gen.size, perfect |-> perfect]
    /\ pc' = "phase5"
    /\ UNCHANGED <<row, rres, last>>

\* phase 5 from the solved clone on: the board after each shuffle of empties
ExtrasPlace(b, sol, empties, extras) ==
    IF sol.tag = "Zero" THEN {[ok |-> FALSE, binox |-> b]}
    ELSE {[ok |-> TRUE,
           binox |-> make_cells_unmodifiable(
                        ExtrasFrom(b, sol.sols[1], shuffled,
                                   IF Len(empties) > extras THEN extras ELSE Len(empties),
                                   1))] :
             shuffled \in Shuffles(empties)}

\* phase 5 on the clone after presolve_simple
ExtrasClone(b, clone, extras) ==
    ExtrasPlace(b, solve(clone, TRUE), get_empties(clone), extras)

\* phase 5 and make_cells_unmodifiable
ExtrasOutcomes(b, extras) ==
    IF extras > 0 THEN ExtrasClone(b, presolve_simple(b).binox, extras)
    ELSE {[ok |-> TRUE, binox |-> make_cells_unmodifiable(b)]}

\* phase 5, make_cells_unmodifiable and the return
GenExtras ==
    /\ pc = "phase5"
    /\ \E extras \in 0..MaxExtras :
          /\ gen' = [size |-> gen.size, perfect |-> gen.perfect, extras |-> extras]
          /\ \E out \in ExtrasOutcomes(binox, extras) :
                /\ binox' = out.binox
                /\ pc' = IF out.ok THEN "done" ELSE "error"
                /\ last' = [op |-> "generate", ok |-> out.ok]
    /\ UNCHANGED <<row, rres>>

NextGen ==
    \/ GenSeed
    \/ GenRepair
    \/ GenMinimize
    \/ GenExtras

SpecGen == InitGen /\ [][NextGen]_vars

(***************************************************************************)
(* SpecAdd: the + of BinoxSolution applied to three outcomes.              *)
(***************************************************************************)
\* the boards the outcomes carry
AddBoards == {new_from_string(SolvedTest), BinoxNew(MinSize).binox}

Outcomes ==
    {Zero} \cup {One(a) : a \in AddBoards}
           \cup {Multiple(a, b) : a \in AddBoards, b \in AddBoards}

InitAdd ==
    /\ \E p \in Outcomes, q \in Outcomes, r \in Outcomes :
          last = [op |-> "operands", p |-> p, q |-> q, r |-> r]
    /\ pc = "add"
    /\ binox = IdleBoard
    /\ row = IdleRow
    /\ rres = [op |-> "idle"]
    /\ gen = <<>>

Combine ==
    /\ pc = "add"
    /\ last' = [op |-> "add", p |-> last.p, q |-> last.q, r |-> last.r,
                pq |-> Add(last.p, last.q),
                qp |-> Add(last.q, last.p),
                pq_r |-> Add(Add(last.p, last.q), last.r),
                p_qr |-> Add(last.p, Add(last.q, last.r))]
    /\ pc' = "added"
    /\ UNCHANGED <<row, rres, binox, gen>>

NextAdd == Combine

SpecAdd == InitAdd /\ [][NextAdd]_vars

(***************************************************************************)
(* SpecTrace: one call of solve on a decoded board, with the record of its *)
(* recursion.                                                              *)
(***************************************************************************)
InitTrace ==
    /\ \E str \in SweepStrings : binox = new_from_string(str)
    /\ last = [op |-> "new_from_string"]
    /\ pc = "trace"
    /\ row = IdleRow
    /\ rres = [op |-> "idle"]
    /\ gen = <<>>

TracedSolve(multiple) ==
    /\ pc = "trace"
    /\ \E t \in {SolveTrace(binox, multiple)} :
          last' = [op |-> "solve_trace", multiple |-> multiple, sol |-> t.sol,
                   depth |-> t.depth, shrinks |-> t.shrinks, fresh |-> t.fresh]
    /\ pc' = "traced"
    /\ UNCHANGED <<row, rres, binox, gen>>

NextTrace == \E multiple \in BOOLEAN : TracedSolve(multiple)

SpecTrace == InitTrace /\ [][NextTrace]_vars

(***************************************************************************)
(* The puzzle rules, stated on cells and bit positions.                    *)
(***************************************************************************)
BitSet(d, i) == (d \div (2 ^ i)) % 2 = 1

RECURSIVE BitsToWord(_)
BitsToWord(S) ==
    IF S = {} THEN 0
    ELSE LET i == CHOOSE x \in S : TRUE
         IN  (2 ^ i) + BitsToWord(S \ {i})

\* the positions of a line that hold its symbol, and those that do not
OnesOf(r) == {i \in 0..(r.size - 1) : BitSet(r.data, i)}
ZerosOf(r) == (0..(r.size - 1)) \ OnesOf(r)

HasTriple(S) == \E i \in S : (i + 1) \in S /\ (i + 2) \in S

LineRuleSimple(r) == ~HasTriple(OnesOf(r)) /\ r.count <= r.size \div 2

LineRule(r) ==
    /\ LineRuleSimple(r)
    /\ (r.count = r.size \div 2 => ~HasTriple(ZerosOf(r)))

\* the four line collections of a board
Collections(b) == {b.x_rows, b.o_rows, b.x_cols, b.o_cols}

\* no two lines of a collection have the same bits and count = size / 2
NoHalfDuplicate(coll, size) ==
    \A i, j \in 1..Len(coll) :
        (i # j /\ coll[i].data = coll[j].data) => coll[i].count # size \div 2

\* the symbols of a board as a grid
Coords(b) == (0..(b.size - 1)) \X (0..(b.size - 1))

Grid(b) == [rc \in Coords(b) |-> get_cell(b, rc[1], rc[2])]

\* the symbols of row r / column c, left to right / top to bottom
RowOf(g, n, r) == [k \in 1..n |-> g[<<r, k - 1>>]]
ColOf(g, n, c) == [k \in 1..n |-> g[<<k - 1, c>>]]

Balanced(line, n) ==
    /\ Cardinality({k \in 1..n : line[k] = "X"}) = n \div 2
    /\ Cardinality({k \in 1..n : line[k] = "O"}) = n \div 2

NoThreeEqual(line, n) ==
    \A k \in 1..(n - 2) : ~(line[k] = line[k + 1] /\ line[k + 1] = line[k + 2])

\* the three rules of the puzzle on a full grid of size n
PuzzleRules(g, n) ==
    /\ \A i \in 0..(n - 1) :
          /\ Balanced(RowOf(g, n, i), n) /\ Balanced(ColOf(g, n, i), n)
          /\ NoThreeEqual(RowOf(g, n, i), n) /\ NoThreeEqual(ColOf(g, n, i), n)
    /\ \A i, j \in 0..(n - 1) :
          i # j => (RowOf(g, n, i) # RowOf(g, n, j) /\ ColOf(g, n, i) # ColOf(g, n, j))

\* the full board of the smallest size whose row r holds X where bit c of
\* words[r + 1] is set, and O elsewhere
FullBoard(words) ==
    LET n == MinSize
        full == (2 ^ n) - 1
        colX(c) == LET S == {r \in 0..(n - 1) : BitSet(words[r + 1], c)}
                   IN  [data |-> BitsToWord(S), size |-> n, count |-> Cardinality(S)]
        colO(c) == LET S == {r \in 0..(n - 1) : ~BitSet(words[r + 1], c)}
                   IN  [data |-> BitsToWord(S), size |-> n, count |-> Cardinality(S)]
        rowX(r) == [data |-> words[r + 1], size |-> n,
                    count |-> PopCount(words[r + 1])]
        rowO(r) == [data |-> full - words[r + 1], size |-> n,
                    count |-> n - PopCount(words[r + 1])]
    IN  [size |-> n,
         x_rows |-> [k \in 1..n |-> rowX(k - 1)],
         o_rows |-> [k \in 1..n |-> rowO(k - 1)],
         x_cols |-> [k \in 1..n |-> colX(k - 1)],
         o_cols |-> [k \in 1..n |-> colO(k - 1)],
         default_rows |-> [k \in 1..n |-> BinRowNew(n)]]

\* the grids of the full boards of the smallest size that is_valid accepts
ValidFullGrids ==
    {Grid(FullBoard(words)) :
        words \in {w \in [1..MinSize -> 0..((2 ^ MinSize) - 1)] : is_valid(FullBoard(w))}}

Extends(g, b) ==
    \A rc \in Coords(b) :
        get_cell(b, rc[1], rc[2]) # "EMPTY" => g[rc] = get_cell(b, rc[1], rc[2])

\* the set S of solve's contract: the grids of the full boards that extend b
\* and that is_valid accepts
Completions(b) ==
    IF is_full(b) THEN (IF is_valid(b) THEN {Grid(b)} ELSE {})
    ELSE {g \in ValidFullGrids : Extends(g, b)}

(***************************************************************************)
(* Claims                                                                  *)
(***************************************************************************)

\* C1: for every board of any legal size, solve(b, true) returns Zero iff no
\* full board extends b and satisfies is_valid, One(s) iff s is the only such
\* board, Multiple(s1, s2) iff there are at least two and s1, s2 are two
\* different ones; a full valid board is returned as One of itself.
C1_SolveClassifies ==
    (last.op = "solve" /\ last.multiple) =>
        /\ ~last.panic
        /\ LET S == Completions(binox)
               sol == last.sol
           IN  /\ (sol.tag = "Zero") = (S = {})
               /\ (sol.tag = "One") = (Cardinality(S) = 1)
               /\ sol.tag = "One" => S = {Grid(sol.sols[1])}
               /\ (sol.tag = "Multiple") = (Cardinality(S) >= 2)
               /\ sol.tag = "Multiple" =>
                     /\ Grid(sol.sols[1]) \in S /\ Grid(sol.sols[2]) \in S
                     /\ Grid(sol.sols[1]) # Grid(sol.sols[2])
               /\ (is_full(binox) /\ is_valid(binox)) => sol = One(binox)

\* C1 for the boards below size 16, where no validity query faults
C1_BelowWordSize == binox.size < WordBits => C1_SolveClassifies

\* C2: a board that generate returns has exactly one valid full completion:
\* solve(board, true) returns One.
C2_GeneratedUnique ==
    (pc = "done" /\ last.op = "generate" /\ last.ok) =>
        solve(binox, TRUE).tag = "One"

\* generate returned a board that holds given cells and whose repair loop ran
C2_Witness ==
    /\ pc = "done" /\ last.op = "generate" /\ last.ok
    /\ \E rc \in Coords(binox) : is_default(binox, rc[1], rc[2])
    /\ ~is_full(binox)

\* C3: is_valid_simple is true iff every line of all four collections satisfies
\* BinRow::is_valid_simple; is_valid is true iff every line of all four
\* collections satisfies BinRow::is_valid and no collection has two lines with
\* the same bits and count = size / 2.
C3_AllFourCollections ==
    (last.op = "verify" /\ ~last.panic) =>
        /\ last.simple =
              (\A coll \in Collections(binox) :
                  \A k \in 1..Len(coll) : BinRowIsValidSimple(coll[k]))
        /\ last.valid =
              (\A coll \in Collections(binox) :
                  /\ \A k \in 1..Len(coll) : BinRowIsValid(coll[k])
                  /\ NoHalfDuplicate(coll, binox.size))

\* C4: on a full board of any legal size is_solved answers, and is true iff
\* every row and column holds size/2 X and size/2 O, none holds three equal
\* symbols in a row, rows are pairwise distinct and columns are pairwise distinct.
C4_SolvedIffRules ==
    (last.op = "verify" /\ is_full(binox)) =>
        /\ ~last.panic
        /\ last.solved = PuzzleRules(Grid(binox), binox.size)

\* C4 for the boards below size 16
C4_BelowWordSize == binox.size < WordBits => C4_SolvedIffRules

\* C5: on a board that generate(size, TRUE, 0) returns, emptying any one
\* non-Empty cell gives a board with at least two valid full completions:
\* solve(.., true) returns Multiple.
C5_Irreducible ==
    (pc = "done" /\ last.op = "generate" /\ last.ok /\ gen.perfect /\ gen.extras = 0) =>
        \A rc \in Coords(binox) :
            get_cell(binox, rc[1], rc[2]) # "EMPTY" =>
                solve(set_empty(binox, rc[1], rc[2]).binox, TRUE).tag = "Multiple"

\* generate(size, TRUE, 0) returned a board with given cells, and emptying one
\* of them gives a board that solve reports Multiple on
C5_Witness ==
    /\ pc = "done" /\ last.op = "generate" /\ last.ok /\ gen.perfect /\ gen.extras = 0
    /\ \E rc \in Coords(binox) :
          /\ is_default(binox, rc[1], rc[2])
          /\ solve(set_empty(binox, rc[1], rc[2]).binox, TRUE).tag = "Multiple"

\* C6 as stated: after a presolve that returned Good, a second presolve changes
\* no cell.
C6_Idempotent ==
    (last.op = "presolve" /\ last.strict /\ last.res = "Good") =>
        presolve(binox).binox = binox

\* C6, amended: after a presolve that returned Good, a second presolve changes
\* no cell that the first one left non-Empty, and no given flag; it may fill
\* cells the first one left Empty.
C6_FilledCellsKept ==
    (last.op = "presolve" /\ last.strict /\ last.res = "Good") =>
        LET second == presolve(binox).binox
        IN  \A rc \in Coords(binox) :
               /\ get_cell(binox, rc[1], rc[2]) # "EMPTY" =>
                     get_cell(second, rc[1], rc[2]) = get_cell(binox, rc[1], rc[2])
               /\ is_default(second, rc[1], rc[2]) = is_default(binox, rc[1], rc[2])

\* a presolve returned Good and filled a cell, and a second presolve fills more
C6_Witness ==
    /\ last.op = "presolve" /\ last.strict /\ last.res = "Good"
    /\ binox # last.before
    /\ presolve(binox).binox # binox

\* C7: for every board of a session, new_from_string(as_string(b)) has the size
\* of b and, at every cell, the symbol and the given flag of b.
C7_RoundTrip ==
    pc = "play" =>
        LET decoded == new_from_string(as_string(binox))
        IN  /\ decoded.size = binox.size
            /\ \A rc \in Coords(binox) :
                  /\ get_cell(decoded, rc[1], rc[2]) = get_cell(binox, rc[1], rc[2])
                  /\ is_default(decoded, rc[1], rc[2]) = is_default(binox, rc[1], rc[2])

\* after a set_cell that succeeded the board holds a given X, a given O, an
\* editable symbol and an Empty cell
C7_Witness ==
    /\ pc = "play" /\ last.op = "set_cell" /\ last.ok
    /\ \E rc \in Coords(binox) :
          get_cell(binox, rc[1], rc[2]) = "X" /\ is_default(binox, rc[1], rc[2])
    /\ \E rc \in Coords(binox) :
          get_cell(binox, rc[1], rc[2]) = "O" /\ is_default(binox, rc[1], rc[2])
    /\ \E rc \in Coords(binox) :
          get_cell(binox, rc[1], rc[2]) # "EMPTY" /\ ~is_default(binox, rc[1], rc[2])
    /\ \E rc \in Coords(binox) : get_cell(binox, rc[1], rc[2]) = "EMPTY"

\* C8: set_cell on a given cell, or with row >= size or col >= size, returns an
\* error for every value and leaves the board (the four line collections, the
\* counts, the given mask) unchanged.
C8_BlockedSetCell ==
    [][\A r \in 0..binox.size, c \in 0..binox.size, cell \in Cells :
          (SetCell(r, c, cell) /\ Blocked(binox, r, c) # "no") =>
              (~last'.ok /\ binox' = binox)]_vars

\* set_cell was called on a given cell
C8_Witness == pc = "play" /\ last.op = "set_cell" /\ last.blocked = "given"

\* C10: in a session, for every cell (r, c): x_rows[r] bit c and o_rows[r] bit c
\* are not both set (I1); x_rows[r] bit c = x_cols[c] bit r and o_rows[r] bit c =
\* o_cols[c] bit r (I2).
C10_Representation ==
    pc = "play" =>
        \A rc \in Coords(binox) :
            LET r == rc[1]
                c == rc[2]
            IN  /\ ~(BitSet(binox.x_rows[r + 1].data, c) /\ BitSet(binox.o_rows[r + 1].data, c))
                /\ BitSet(binox.x_rows[r + 1].data, c) = BitSet(binox.x_cols[c + 1].data, r)
                /\ BitSet(binox.o_rows[r + 1].data, c) = BitSet(binox.o_cols[c + 1].data, r)

\* a presolve has filled editable cells with X and with O
C10_Witness ==
    /\ pc = "play" /\ last.op = "presolve"
    /\ \E rc \in Coords(binox) :
          get_cell(binox, rc[1], rc[2]) = "X" /\ ~is_default(binox, rc[1], rc[2])
    /\ \E rc \in Coords(binox) :
          get_cell(binox, rc[1], rc[2]) = "O" /\ ~is_default(binox, rc[1], rc[2])

\* C9: for every even line size in [4,16] and every bit pattern, is_valid_simple
\* is true iff the line has no three consecutive set bits and count <= size/2,
\* is_valid is true iff that holds and, when count = size/2, the complement over
\* the low `size` bits has no three consecutive set bits; neither query faults.
C9_LineValidity ==
    /\ rres.op = "is_valid_simple" =>
          (~rres.panic /\ rres.val = LineRuleSimple(row))
    /\ rres.op = "is_valid" =>
          (~rres.panic /\ rres.val = LineRule(row))

\* C9 for the sizes below 16, where 1 << size fits the word
C9_BelowWordSize == row.size < WordBits => C9_LineValidity

\* C11: after any sequence of set_one / set_zero / set_bool calls on a line,
\* count is the number of set bits of data and no bit at index >= size is set;
\* a call rejected for position >= size leaves data and count unchanged.
C11_CountInvariant ==
    /\ [](pc \in {"row", "rowdone"} =>
            /\ row.count = Cardinality(OnesOf(row))
            /\ row.data < 2 ^ row.size)
    /\ [][(rres'.op = "set" /\ ~rres'.ok) => row' = row]_vars

\* a mutator call was rejected on a line that holds set bits
C11_Witness == pc = "row" /\ rres.op = "set" /\ ~rres.ok /\ row.count > 1

\* the boards an outcome carries
Carried(sol) == {sol.sols[k] : k \in 1..Len(sol.sols)}

\* C12 as stated: p + q equals q + p and (p + q) + r equals p + (q + r), as
\* outcomes: the same variant carrying the same boards.
C12_AddCommutesAssociates ==
    last.op = "add" =>
        /\ last.pq = last.qp
        /\ last.pq_r = last.p_qr

\* C12, amended: p + q and q + p are the same variant, (p + q) + r and
\* p + (q + r) are the same variant, and each carries only boards that its
\* operands carry; the boards carried, and their order, may differ.
C12_VariantCommutesAssociates ==
    last.op = "add" =>
        /\ last.pq.tag = last.qp.tag
        /\ last.pq_r.tag = last.p_qr.tag
        /\ Carried(last.pq) \subseteq Carried(last.p) \cup Carried(last.q)
        /\ Carried(last.pq_r) \cup Carried(last.p_qr)
              \subseteq Carried(last.p) \cup Carried(last.q) \cup Carried(last.r)

\* One(a) + One(b) with a # b has been combined in both orders
C12_Witness ==
    /\ last.op = "add"
    /\ last.p.tag = "One" /\ last.q.tag = "One" /\ last.p # last.q
    /\ last.pq # last.qp

\* C13: reset sets every cell whose given flag is clear to Empty and leaves
\* the symbol of every given cell and every given flag unchanged; after reset
\* the non-Empty cells are exactly the given cells.
C13_Reset ==
    [][Reset =>
          \A rc \in Coords(binox) :
              /\ is_default(binox', rc[1], rc[2]) = is_default(binox, rc[1], rc[2])
              /\ ~is_default(binox, rc[1], rc[2]) => get_cell(binox', rc[1], rc[2]) = "EMPTY"
              /\ is_default(binox, rc[1], rc[2]) =>
                    get_cell(binox', rc[1], rc[2]) = get_cell(binox, rc[1], rc[2])
              /\ (get_cell(binox', rc[1], rc[2]) # "EMPTY") = is_default(binox', rc[1], rc[2])]_vars

\* a reset has acted on a board that holds given cells and editable cells
C13_Witness ==
    /\ pc = "play" /\ last.op = "reset"
    /\ \E rc \in Coords(binox) : is_default(binox, rc[1], rc[2])
    /\ \E rc \in Coords(binox) : ~is_default(binox, rc[1], rc[2])

\* C14: for every legal size generate returns a board: every solve call it
\* makes answers, and answers Zero never.  generate returns only after a
\* solve(true) call on a full valid board of its size has answered One.
C14_GenerateSolveAnswers ==
    (last.op = "solve" /\ last.multiple /\ is_full(binox) /\ is_valid(binox)) =>
        (~last.panic /\ last.sol.tag = "One")

\* C14 for the smallest size: generate fails only for an illegal size
C14_BelowWordSize ==
    (pc = "error" /\ last.op = "generate") => ~SizeOk(gen.size)

\* the recorded solve returns what solve returns
TraceAgrees == last.op = "solve_trace" => last.sol = solve(binox, last.multiple)

\* C15: every recursive call of solve is made on a board with strictly fewer
\* Empty cells than the board of the call that makes it, so the depth of the
\* recursion is at most the number of Empty cells of the input board.
C15_SolveShrinks ==
    last.op = "solve_trace" =>
        (last.shrinks /\ last.depth <= Empties(binox))

\* a solve has recursed at least two levels deep
C15_Witness == last.op = "solve_trace" /\ last.depth >= 2 /\ last.sol.tag # "Zero"

\* C16: at every branching step of solve the cell that takes X in one clone
\* and O in the other is an Empty cell of the presolved clone.
C16_BranchCellEmpty == last.op = "solve_trace" => last.fresh

\* C17: presolve and presolve_simple are sound: a sweep never changes a cell
\* that was not Empty, the board after the sweep has the same valid full
\* completions as the board before it (so every symbol it commits is the one
\* the cell has in every completion), and a sweep that returns Bad was run on
\* a board with no valid full completion.
C17_PresolveSound ==
    last.op = "presolve" =>
        /\ \A rc \in Coords(binox) :
              get_cell(last.before, rc[1], rc[2]) # "EMPTY" =>
                  get_cell(binox, rc[1], rc[2]) = get_cell(last.before, rc[1], rc[2])
        /\ Completions(binox) = Completions(last.before)
        /\ last.res = "Bad" => Completions(last.before) = {}

\* a sweep has committed a symbol on a board that has several completions
C17_Witness ==
    /\ last.op = "presolve"
    /\ last.res = "Good"
    /\ binox # last.before
    /\ Cardinality(Completions(last.before)) >= 2

\* a sweep has returned Bad
C17_BadReached == last.op = "presolve" /\ last.res = "Bad" /\ binox # last.before

\* C18: the repair loop of generate (phase 2) makes progress: whenever solve
\* returns Multiple(a, b), a and b differ in at least one cell and every such
\* cell is Empty in the working board, so the turn fills exactly one Empty
\* cell and stays in the loop; the working board always keeps a valid full
\* completion; the loop is left only when solve returns One; no run of the
\* loop takes more than size * size turns.
C18_RepairProgress ==
    /\ [](pc = "phase2" =>
            (Completions(binox) # {} /\ gen.turns <= binox.size * binox.size))
    /\ [][(pc = "phase2" /\ gen'.turns = gen.turns + 1 /\ last'.tag = "Multiple") =>
            /\ last'.diff # <<>>
            /\ \A i \in 1..Len(last'.diff) :
                  get_cell(binox, last'.diff[i][1], last'.diff[i][2]) = "EMPTY"
            /\ Empties(binox') = Empties(binox) - 1
            /\ Completions(binox') # {}
            /\ pc' = "phase2"]_vars
    /\ [][(pc = "phase2" /\ gen'.turns = gen.turns + 1 /\ last'.tag # "Multiple") =>
            (last'.tag = "One" /\ pc' = "phase3")]_vars

\* the loop has ended on One after three turns on Multiple and more
C18_Witness ==
    /\ pc = "phase3"
    /\ last.op = "repair"
    /\ last.tag = "One"
    /\ gen.turns >= 4

====
